---- MODULE Spec2Model ----
(***************************************************************************)
(* Vulkan deferred command scheduler (VKScheduler.cpp / VKScheduler.h).    *)
(*                                                                         *)
(* Threads: the producer (calls into Scheduler), the recording worker      *)
(* (Scheduler::WorkerThread), the submission worker and the fence worker   *)
(* of CommandBufferManager, and the GPU.  A critical section under one     *)
(* mutex is one atomic step; everything between two critical sections of   *)
(* the same thread that touches only thread-local data is folded into the  *)
(* neighbouring step.                                                      *)
(***************************************************************************)
EXTENDS Integers, Sequences, FiniteSets, TLC

\* ------------------------------------------------------------------ bounds
MaxRecords == 2          \* draw closures the producer records in one run
MaxFence == 3            \* cap on m_current_fence_counter
NumSlots == 2            \* NUM_COMMAND_BUFFERS, scaled down
MaxArenaRecords == 7     \* closures recorded in a run that only fills chunks
MaxReuseFence == 4       \* cap on m_current_fence_counter in a run that reuses slots
MaxChecks == 3           \* calls of CheckLastPresentFail in one run
MaxMixed == 3            \* of these, the first whose types are chosen freely;
                         \* the later ones repeat the type of the one before

\* --------------------------------------------------------------- constants
CHUNK_BYTES == 32768     \* sizeof(CommandChunk::data), 0x8000
CMD_ALIGN == 16          \* alignas(16) TypedCommand
SUBMIT_CMD_SIZE == 48    \* sizeof(TypedCommand<submit lambda>)
DRAW_CMD_SIZE == 16384   \* a closure of which exactly two fit in a chunk
INITIAL_FENCE_COUNTER == 1
INITIAL_COMPLETED_COUNTER == 0

Null == -1

VARIABLES
  \* Scheduler
  m_chunk,                  \* the producer's current chunk, or NoChunk
  m_work_queue,             \* std::queue of chunks
  m_worker_idle,
  m_submit_loop,            \* Common::BlockingLoop of the recording worker
  m_chunk_reserve,          \* std::vector of chunks (the pool)
  m_current_fence_counter,
  allocated,                \* number of chunks ever allocated (make_unique)
  ppc,                      \* producer: the steps left of the call in progress
  \* recording worker
  wpc, work, command,
  \* CommandBufferManager
  m_completed_fence_counter,
  m_command_buffers, m_current_cmd_buffer,
  m_pending_submits, m_submit_worker_idle,
  m_pending_fences,
  spc, submit_cur,          \* submission worker
  \* driver / GPU
  gpu_queue, signalled,
  m_last_present_failed, m_last_present_done, m_last_present_result,
  \* history
  recorded, executed, submit_calls, ran,
  drained,                  \* the closures of each chunk the worker has drained
  presents,                 \* the presents made: generation and result
  checks,                   \* what each CheckLastPresentFail returned
  phase                     \* how far the producer's program has come

vars == <<m_chunk, m_work_queue, m_worker_idle, m_submit_loop, m_chunk_reserve,
          m_current_fence_counter, allocated, ppc, wpc, work, command,
          m_completed_fence_counter, m_command_buffers, m_current_cmd_buffer,
          m_pending_submits, m_submit_worker_idle, m_pending_fences,
          spc, submit_cur, gpu_queue, signalled,
          m_last_present_failed, m_last_present_done, m_last_present_result,
          recorded, executed, submit_calls, ran, drained, presents, checks, phase>>

presentVars == <<m_last_present_failed, m_last_present_done,
                 m_last_present_result, presents>>

schedVars == <<m_chunk, m_work_queue, m_worker_idle, m_submit_loop, m_chunk_reserve,
               m_current_fence_counter, allocated>>
workerVars == <<wpc, work, command>>
cbmVars == <<m_completed_fence_counter, m_command_buffers, m_current_cmd_buffer,
             m_pending_submits, m_submit_worker_idle, m_pending_fences,
             spc, submit_cur, submit_calls, ran>>
gpuVars == <<gpu_queue, signalled>>

\* ------------------------------------------------------------ CommandChunk
NoChunk == [id |-> 0, command_offset |-> 0, first |-> Null, last |-> Null,
            nodes |-> <<>>]

NewChunk(i) == [id |-> i, command_offset |-> 0, first |-> Null, last |-> Null,
                nodes |-> <<>>]

\* A closure: kind "draw" (writes to the current command buffer and calls
\* CommandBufferManager::Defer*Destruction for a resource named by its id) or
\* "submit" (calls CommandBufferManager::SubmitCommandBuffer).  present: the
\* submit names a swap chain to present to (VK_NULL_HANDLE by default).
Cmd(id, kind, size, gen, onw, wait) ==
  [id |-> id, kind |-> kind, size |-> size, align |-> CMD_ALIGN,
   gen |-> gen, on_worker |-> onw, wait |-> wait, present |-> FALSE]

NoCmd == Cmd(0, "none", 0, 0, FALSE, FALSE)

\* An AlignUp that leaves the cursor where it is.
AlignUpNone(value, size) == value

\* Common::AlignUp
AlignUp(value, size) == value + ((size - (value % size)) % size)

\* A bounds check that forgets the size of the node.
ChunkFitsNoSize(chunk, cmd) ==
  ~(AlignUp(chunk.command_offset, cmd.align) > CHUNK_BYTES)

\* CommandChunk::Record: the bool it returns.
ChunkFits(chunk, cmd) ==
  ~(AlignUp(chunk.command_offset, cmd.align) > CHUNK_BYTES - cmd.size)

\* Record that makes every node the head of the list (the link to the
\* previous last node is never written).
ChunkRecordUnlinked(chunk, cmd) ==
  LET off == AlignUp(chunk.command_offset, cmd.align) IN
  IF ~ChunkFits(chunk, cmd)
    THEN [chunk EXCEPT !.command_offset = off]
    ELSE [chunk EXCEPT
            !.command_offset = off + cmd.size,
            !.last = off,
            !.first = off,
            !.nodes = Append(chunk.nodes,
                             [offset |-> off, cmd |-> cmd, next |-> Null])]

\* A Record in which only the alignment moves the cursor (line 76 is left
\* out).
ChunkRecordNoAdvance(chunk, cmd) ==
  LET off == AlignUp(chunk.command_offset, cmd.align) IN
  IF ~ChunkFits(chunk, cmd)
    THEN [chunk EXCEPT !.command_offset = off]
    ELSE [chunk EXCEPT
            !.command_offset = off,
            !.last = off,
            !.first = IF chunk.last # Null THEN chunk.first ELSE off,
            !.nodes = Append(
               [n \in DOMAIN chunk.nodes |->
                  IF chunk.nodes[n].offset = chunk.last
                    THEN [chunk.nodes[n] EXCEPT !.next = off]
                    ELSE chunk.nodes[n]],
               [offset |-> off, cmd |-> cmd, next |-> Null])]

\* CommandChunk::Record: the chunk it leaves.
ChunkRecord(chunk, cmd) ==
  LET off == AlignUp(chunk.command_offset, cmd.align) IN
  IF ~ChunkFits(chunk, cmd)
    THEN [chunk EXCEPT !.command_offset = off]
    ELSE [chunk EXCEPT
            !.command_offset = off + cmd.size,
            !.last = off,
            !.first = IF chunk.last # Null THEN chunk.first ELSE off,
            !.nodes = Append(
               [n \in DOMAIN chunk.nodes |->
                  IF chunk.nodes[n].offset = chunk.last
                    THEN [chunk.nodes[n] EXCEPT !.next = off]
                    ELSE chunk.nodes[n]],
               [offset |-> off, cmd |-> cmd, next |-> Null])]

\* The node a Command* points at.
NodeAt(chunk, ptr) ==
  chunk.nodes[CHOOSE n \in DOMAIN chunk.nodes : chunk.nodes[n].offset = ptr]

ChunkEmpty(chunk) == chunk.command_offset = 0

\* An ExecuteAll that runs the closures and resets nothing.
ChunkResetNone(chunk) == chunk

\* A reset that leaves the cursor at the end of the drained closures.
ChunkResetKeepCursor(chunk) ==
  [chunk EXCEPT !.first = Null, !.last = Null, !.nodes = <<>>]

\* CommandChunk::ExecuteAll, its tail: the reset after the walk.
ChunkReset(chunk) ==
  [chunk EXCEPT !.command_offset = 0, !.first = Null, !.last = Null,
                !.nodes = <<>>]

\* ------------------------------------------------- producer: call structure
\* A call in progress is the list of the steps it has left.  A step is one
\* critical section, one blocking wait or one atomic load, with the
\* thread-local work around it.
Step(op, cmd, n) == [op |-> op, cmd |-> cmd, n |-> n, of |-> ""]

\* The return of a blocking public call: the caller has the result in hand.
Ret(op, n) == <<[op |-> "ret", cmd |-> NoCmd, n |-> n, of |-> op]>>

\* Scheduler::Record
RecordSteps(cmd) == <<Step("record", cmd, 0)>>

\* Scheduler::Flush
FlushSteps == <<Step("flush", NoCmd, 0)>>

\* SyncWorker that returns without waiting for the idle flag.
SyncWorkerNoWait == FlushSteps

\* Scheduler::SyncWorker
SyncWorkerSteps == FlushSteps \o <<Step("wait_idle", NoCmd, 0)>>

\* Scheduler::WaitForFenceCounter, entry: the early return is taken when the
\* step runs.
WaitForFenceCounterSteps(counter) == <<Step("wait_for_fence", NoCmd, counter)>>

\* WaitForFenceCounter that syncs the worker and does not wait for the fence.
WaitForFenceCounterNoWait(counter) == SyncWorkerSteps

\* Scheduler::WaitForFenceCounter, lines 132-133.
WaitForFenceCounterSlow(counter) ==
  SyncWorkerSteps \o <<Step("cbm_wait", NoCmd, counter)>>

\* A generation that skips a value.
NextFenceCounterSkipping(current) == current + 2

\* Scheduler::SubmitCommandBuffer, line 139: the value of ++m_current_fence_counter,
\* the generation of this submit.
NextFenceCounter(current) == current + 1

\* A generation computed from the counter without storing it back.
FenceCounterNotStored(current) == current

\* Scheduler::SubmitCommandBuffer, line 139: what ++m_current_fence_counter
\* leaves in the counter.
IncrementedFenceCounter(current) == current + 1

\* A SubmitCommandBuffer that does not flush when it does not wait.
SubmitStepsNoFlush(cmd) ==
  RecordSteps(cmd) \o
  (IF cmd.wait
     THEN WaitForFenceCounterSteps(cmd.gen) \o Ret("SubmitCommandBuffer", cmd.gen)
     ELSE <<>>)

\* Scheduler::SubmitCommandBuffer, lines 140-151.
SubmitSteps(cmd) ==
  RecordSteps(cmd) \o
  (IF cmd.wait
     THEN WaitForFenceCounterSteps(cmd.gen) \o Ret("SubmitCommandBuffer", cmd.gen)
     ELSE FlushSteps)

\* Scheduler::SynchronizeSubmissionThread
SynchronizeSubmissionThreadSteps ==
  SyncWorkerSteps \o <<Step("wait_submit_idle", NoCmd, 0)>>

\* A Shutdown that does not synchronize the submission thread.
ShutdownNoSubmitSync == SyncWorkerSteps

\* Scheduler::Shutdown
ShutdownSteps == SyncWorkerSteps \o SynchronizeSubmissionThreadSteps

\* ------------------------------------------------------------------- Init
\* The submission worker holds no PendingCommandBufferSubmit.
NoSubmit == [command_buffer_index |-> Null, present |-> FALSE]

Slot(state) == [fence_counter |-> 0, cleanup_resources |-> <<>>, state |-> state]

Slots == 0 .. NumSlots - 1

Init ==
  /\ m_chunk = NewChunk(1)
  /\ allocated = 1
  /\ m_work_queue = <<>>
  /\ m_worker_idle = TRUE
  /\ m_submit_loop = "running"
  /\ m_chunk_reserve = <<>>
  /\ m_current_fence_counter = INITIAL_FENCE_COUNTER
  /\ ppc = <<>>
  /\ wpc = "top"
  /\ work = NoChunk
  /\ command = Null
  /\ m_completed_fence_counter = INITIAL_COMPLETED_COUNTER
  /\ m_command_buffers =
       [i \in Slots |-> IF i = 0 THEN Slot("Recording") ELSE Slot("Retired")]
  /\ m_current_cmd_buffer = 0
  /\ m_pending_submits = <<>>
  /\ m_submit_worker_idle = TRUE
  /\ m_pending_fences = <<>>
  /\ spc = "top"
  /\ submit_cur = NoSubmit
  /\ gpu_queue = <<>>
  /\ signalled = {}
  /\ recorded = <<>>
  /\ executed = <<>>
  /\ submit_calls = <<>>
  /\ ran = {}
  /\ drained = <<>>
  /\ m_last_present_failed = FALSE
  /\ m_last_present_done = FALSE
  /\ m_last_present_result = "VK_SUCCESS"
  /\ presents = <<>>
  /\ checks = <<>>
  /\ phase = "run"

\* ------------------------------------------------------- deferred cleanup
\* Running the cleanup_resources of a set of slots; n counts the runs of a
\* callback.
RunCleanup(buffers, which) ==
  ran' = ran \cup UNION
    {{[cb |-> buffers[i].cleanup_resources[k], slot |-> i,
       gen |-> buffers[i].fence_counter, state |-> buffers[i].state,
       n |-> 1 + Cardinality({r \in ran : r.cb = buffers[i].cleanup_resources[k]})] :
         k \in 1 .. Len(buffers[i].cleanup_resources)} : i \in which}

\* A cleanup that runs the callbacks and leaves them in the list.
ClearedNothing(buffers, which) == buffers

\* cleanup_resources.clear() for a set of slots.
Cleared(buffers, which) ==
  [i \in Slots |-> IF i \in which
                     THEN [buffers[i] EXCEPT !.cleanup_resources = <<>>]
                     ELSE buffers[i]]

Max(a, b) == IF a >= b THEN a ELSE b

\* The slots whose cleanup the fence worker runs for a counter.
CompletedSlots(buffers, counter) ==
  {i \in Slots : buffers[i].state # "Recording" /\ buffers[i].fence_counter <= counter}

\* ------------------------------------------------------------ BlockingLoop
\* The loop of the recording worker is "running" (it will call its payload),
\* "may_sleep" (the payload returned after AllowSleep and no Wakeup has come
\* since) or "sleeping".

\* A Wakeup that reaches the loop only when it is already asleep.
WakeupOnlySleeping(loop) == IF loop = "sleeping" THEN "running" ELSE loop

\* BlockingLoop::Wakeup: the payload runs at least once more.
Wakeup(loop) == "running"

\* ------------------------------------------------------ producer: the steps
\* Each takes the step list p whose head it runs: the list of a call being
\* made, or ppc.

\* A Flush that pushes a copy of the chunk and keeps recording into it.
FlushChunkShared(chunk, after, rest) ==
  IF ChunkEmpty(chunk)
    THEN /\ m_chunk' = chunk
         /\ ppc' = rest
         /\ UNCHANGED <<m_work_queue, m_worker_idle, m_submit_loop>>
    ELSE /\ m_worker_idle' = FALSE
         /\ m_work_queue' = Append(m_work_queue, chunk)
         /\ m_submit_loop' = Wakeup(m_submit_loop)
         /\ m_chunk' = chunk
         /\ ppc' = <<Step("acquire", after, 0)>> \o rest

\* A Flush that pushes the chunk and sends no Wakeup.
FlushChunkNoWake(chunk, after, rest) ==
  IF ChunkEmpty(chunk)
    THEN /\ m_chunk' = chunk
         /\ ppc' = rest
         /\ UNCHANGED <<m_work_queue, m_worker_idle, m_submit_loop>>
    ELSE /\ m_worker_idle' = FALSE
         /\ m_work_queue' = Append(m_work_queue, chunk)
         /\ UNCHANGED m_submit_loop
         /\ m_chunk' = NoChunk
         /\ ppc' = <<Step("acquire", after, 0)>> \o rest

\* A Flush without the test of Empty(): the chunk is pushed in any case.
FlushChunkAlways(chunk, after, rest) ==
  /\ m_worker_idle' = FALSE
  /\ m_work_queue' = Append(m_work_queue, chunk)
  /\ m_submit_loop' = Wakeup(m_submit_loop)
  /\ m_chunk' = NoChunk
  /\ ppc' = <<Step("acquire", after, 0)>> \o rest

\* Scheduler::Flush, lines 63-71, of the chunk the producer holds
FlushChunk(chunk, after, rest) ==
  IF ChunkEmpty(chunk)
    THEN /\ m_chunk' = chunk
         /\ ppc' = rest
         /\ UNCHANGED <<m_work_queue, m_worker_idle, m_submit_loop>>
    ELSE /\ m_worker_idle' = FALSE
         /\ m_work_queue' = Append(m_work_queue, chunk)
         /\ m_submit_loop' = Wakeup(m_submit_loop)
         /\ m_chunk' = NoChunk
         /\ ppc' = <<Step("acquire", after, 0)>> \o rest

DoFlush(p) ==
  /\ FlushChunk(m_chunk, NoCmd, Tail(p))
  /\ UNCHANGED <<m_chunk_reserve, allocated>>

\* Scheduler::Record, lines 109-113, up to the critical section of Flush
DoRecord(p) ==
  LET cmd == Head(p).cmd
      tried == ChunkRecord(m_chunk, cmd)
  IN /\ IF ChunkFits(m_chunk, cmd)
          THEN /\ m_chunk' = tried
               /\ ppc' = Tail(p)
               /\ UNCHANGED <<m_work_queue, m_worker_idle, m_submit_loop>>
          ELSE IF ChunkEmpty(tried)
            THEN /\ m_chunk' = ChunkRecord(tried, cmd)
                 /\ ppc' = Tail(p)
                 /\ UNCHANGED <<m_work_queue, m_worker_idle, m_submit_loop>>
            ELSE FlushChunk(tried, cmd, Tail(p))
     /\ UNCHANGED <<m_chunk_reserve, allocated>>

\* An AcquireNewChunk that never allocates: it waits until the worker has
\* returned a chunk to the reserve.
DoAcquireWaitsForPool(p) ==
  LET after(chunk) == IF Head(p).cmd.kind = "none" THEN chunk
                      ELSE ChunkRecord(chunk, Head(p).cmd)
  IN /\ m_chunk_reserve # <<>>
     /\ m_chunk' = after(m_chunk_reserve[Len(m_chunk_reserve)])
     /\ m_chunk_reserve' = SubSeq(m_chunk_reserve, 1, Len(m_chunk_reserve) - 1)
     /\ UNCHANGED allocated
     /\ ppc' = Tail(p)
     /\ UNCHANGED <<m_work_queue, m_worker_idle, m_submit_loop>>

\* An AcquireNewChunk that takes the back of the reserve and leaves it there.
DoAcquireNoPop(p) ==
  LET after(chunk) == IF Head(p).cmd.kind = "none" THEN chunk
                      ELSE ChunkRecord(chunk, Head(p).cmd)
  IN /\ IF m_chunk_reserve = <<>>
          THEN /\ m_chunk' = after(NewChunk(allocated + 1))
               /\ allocated' = allocated + 1
          ELSE /\ m_chunk' = after(m_chunk_reserve[Len(m_chunk_reserve)])
               /\ UNCHANGED allocated
     /\ UNCHANGED m_chunk_reserve
     /\ ppc' = Tail(p)
     /\ UNCHANGED <<m_work_queue, m_worker_idle, m_submit_loop>>

\* Scheduler::AcquireNewChunk, and line 113 of Record when Record flushed
DoAcquire(p) ==
  LET after(chunk) == IF Head(p).cmd.kind = "none" THEN chunk
                      ELSE ChunkRecord(chunk, Head(p).cmd)
  IN /\ IF m_chunk_reserve = <<>>
          THEN /\ m_chunk' = after(NewChunk(allocated + 1))
               /\ allocated' = allocated + 1
               /\ UNCHANGED m_chunk_reserve
          ELSE /\ m_chunk' = after(m_chunk_reserve[Len(m_chunk_reserve)])
               /\ m_chunk_reserve' =
                    SubSeq(m_chunk_reserve, 1, Len(m_chunk_reserve) - 1)
               /\ UNCHANGED allocated
     /\ ppc' = Tail(p)
     /\ UNCHANGED <<m_work_queue, m_worker_idle, m_submit_loop>>

\* A WaitForFenceCounter without the early return: it syncs the worker and
\* waits whatever the completed counter is.
DoWaitForFenceAlwaysSyncs(p) ==
  /\ ppc' = WaitForFenceCounterSlow(Head(p).n) \o Tail(p)
  /\ UNCHANGED <<m_chunk, m_work_queue, m_worker_idle, m_submit_loop,
                 m_chunk_reserve, allocated>>

\* Scheduler::WaitForFenceCounter, lines 129-130
DoWaitForFence(p) ==
  /\ ppc' = IF m_completed_fence_counter >= Head(p).n
              THEN Tail(p)
              ELSE WaitForFenceCounterSlow(Head(p).n) \o Tail(p)
  /\ UNCHANGED <<m_chunk, m_work_queue, m_worker_idle, m_submit_loop,
                 m_chunk_reserve, allocated>>

AtStep(op) == ppc # <<>> /\ Head(ppc).op = op

othersOfProducer == <<m_current_fence_counter, workerVars, cbmVars, gpuVars,
                      recorded, executed>>

ProducerFlush ==
  /\ AtStep("flush")
  /\ DoFlush(ppc)
  /\ UNCHANGED othersOfProducer
  /\ UNCHANGED <<presentVars, drained, checks, phase>>

ProducerAcquire ==
  /\ AtStep("acquire")
  /\ DoAcquire(ppc)
  /\ UNCHANGED othersOfProducer
  /\ UNCHANGED <<presentVars, drained, checks, phase>>

\* Scheduler::SyncWorker, lines 78-79
ProducerWaitIdle ==
  /\ AtStep("wait_idle")
  /\ m_worker_idle
  /\ ppc' = Tail(ppc)
  /\ UNCHANGED <<schedVars, workerVars, cbmVars, gpuVars, recorded, executed>>
  /\ UNCHANGED <<presentVars, drained, checks, phase>>

ProducerWaitForFence ==
  /\ AtStep("wait_for_fence")
  /\ DoWaitForFence(ppc)
  /\ UNCHANGED othersOfProducer
  /\ UNCHANGED <<presentVars, drained, checks, phase>>

\* CommandBufferManager::WaitForFenceCounter: the wait, and the callbacks it
\* invokes for what has completed
ProducerCbmWait ==
  /\ AtStep("cbm_wait")
  /\ m_completed_fence_counter >= Head(ppc).n
  /\ RunCleanup(m_command_buffers,
                CompletedSlots(m_command_buffers, m_completed_fence_counter))
  /\ m_command_buffers' =
       Cleared(m_command_buffers,
               CompletedSlots(m_command_buffers, m_completed_fence_counter))
  /\ ppc' = Tail(ppc)
  /\ UNCHANGED <<schedVars, workerVars, m_completed_fence_counter,
                 m_current_cmd_buffer, m_pending_submits, m_submit_worker_idle,
                 m_pending_fences, spc, submit_cur, submit_calls,
                 gpuVars, recorded, executed>>
  /\ UNCHANGED <<presentVars, drained, checks, phase>>

\* CommandBufferManager::WaitForSubmitWorkerThreadIdle, called by
\* Scheduler::SynchronizeSubmissionThread, line 124
ProducerWaitSubmitIdle ==
  /\ AtStep("wait_submit_idle")
  /\ m_submit_worker_idle
  /\ ppc' = Tail(ppc)
  /\ UNCHANGED <<schedVars, workerVars, cbmVars, gpuVars, recorded, executed>>
  /\ UNCHANGED <<presentVars, drained, checks, phase>>

\* the caller goes on after a blocking call
ProducerReturn ==
  /\ AtStep("ret")
  /\ ppc' = Tail(ppc)
  /\ UNCHANGED <<schedVars, workerVars, cbmVars, gpuVars, recorded, executed>>
  /\ UNCHANGED <<presentVars, drained, checks, phase>>

\* ------------------------------------------------------ producer: the calls
NDraws == Cardinality({i \in DOMAIN recorded : recorded[i].cmd.kind = "draw"})

\* Scheduler::Record of a closure that writes to the command buffer and
\* defers the destruction of a resource
CallRecord ==
  /\ ppc = <<>>
  /\ phase = "run"
  /\ NDraws < MaxRecords
  /\ LET cmd == Cmd(Len(recorded) + 1, "draw", DRAW_CMD_SIZE, 0, FALSE, FALSE)
     IN /\ DoRecord(RecordSteps(cmd))
        /\ recorded' = Append(recorded, [cmd |-> cmd, cur |-> m_current_fence_counter])
  /\ UNCHANGED <<m_current_fence_counter, workerVars, cbmVars, gpuVars, executed>>
  /\ UNCHANGED <<presentVars, drained, checks, phase>>

\* Scheduler::Flush
CallFlush ==
  /\ ppc = <<>>
  /\ DoFlush(FlushSteps)
  /\ UNCHANGED othersOfProducer
  /\ UNCHANGED <<presentVars, drained, checks, phase>>

\* Scheduler::SyncWorker
CallSyncWorker ==
  /\ ppc = <<>>
  /\ DoFlush(SyncWorkerSteps \o Ret("SyncWorker", 0))
  /\ UNCHANGED othersOfProducer
  /\ UNCHANGED <<presentVars, drained, checks, phase>>

\* Scheduler::WaitForFenceCounter
CallWaitForFenceCounter ==
  /\ ppc = <<>>
  /\ \E counter \in INITIAL_FENCE_COUNTER .. m_current_fence_counter :
       DoWaitForFence(WaitForFenceCounterSteps(counter)
                        \o Ret("WaitForFenceCounter", counter))
  /\ UNCHANGED othersOfProducer
  /\ UNCHANGED <<presentVars, drained, checks, phase>>

\* Scheduler::SubmitCommandBuffer
CallSubmitCommandBuffer ==
  /\ ppc = <<>>
  /\ phase = "run"
  /\ m_current_fence_counter < MaxFence
  /\ \E submit_on_worker_thread \in BOOLEAN, wait_for_completion \in BOOLEAN :
       LET fence_counter == NextFenceCounter(m_current_fence_counter)
           cmd == Cmd(Len(recorded) + 1, "submit", SUBMIT_CMD_SIZE,
                      fence_counter, submit_on_worker_thread, wait_for_completion)
       IN /\ m_current_fence_counter' = IncrementedFenceCounter(m_current_fence_counter)
          /\ DoRecord(SubmitSteps(cmd))
          /\ recorded' = Append(recorded, [cmd |-> cmd, cur |-> fence_counter])
  /\ UNCHANGED <<workerVars, cbmVars, gpuVars, executed>>
  /\ UNCHANGED <<presentVars, drained, checks, phase>>

\* -------------------------------------------------------- recording worker
\* Scheduler::WorkerThread, lines 86-97, and the entry of ExecuteAll
WorkerTop ==
  /\ wpc = "top"
  /\ m_submit_loop = "running"
  /\ IF m_work_queue = <<>>
       THEN /\ m_worker_idle' = TRUE
            /\ m_submit_loop' = "may_sleep"
            /\ UNCHANGED <<m_work_queue, workerVars>>
       ELSE /\ work' = Head(m_work_queue)
            /\ m_work_queue' = Tail(m_work_queue)
            /\ command' = Head(m_work_queue).first
            /\ wpc' = "exec"
            /\ UNCHANGED <<m_worker_idle, m_submit_loop>>
  /\ UNCHANGED <<m_chunk, m_chunk_reserve, m_current_fence_counter, allocated, ppc,
                 cbmVars, gpuVars, recorded, executed>>
  /\ UNCHANGED <<presentVars, drained, checks, phase>>

\* BlockingLoop::Run, after a payload that allowed sleep: the loop sleeps
\* until the next Wakeup
WorkerSleep ==
  /\ m_submit_loop = "may_sleep"
  /\ m_submit_loop' = "sleeping"
  /\ UNCHANGED <<m_chunk, m_work_queue, m_worker_idle, m_chunk_reserve,
                 m_current_fence_counter, allocated, ppc, workerVars,
                 cbmVars, gpuVars, recorded, executed>>
  /\ UNCHANGED <<presentVars, drained, checks, phase>>

\* What the worker is about to execute.
CurrentNode == NodeAt(work, command)

Executing(kind) ==
  /\ wpc = "exec"
  /\ command # Null
  /\ CurrentNode.cmd.kind = kind

\* CommandChunk::ExecuteAll, lines 39-42, for one node: the closure has run.
Executed(node) ==
  /\ executed' = Append(executed, node.cmd.id)
  /\ command' = node.next
  /\ wpc' = "exec"

\* ExecuteAll on a closure that draws and calls Defer*Destruction
ExecuteDraw ==
  /\ Executing("draw")
  /\ m_command_buffers' =
       [m_command_buffers EXCEPT ![m_current_cmd_buffer].cleanup_resources =
          Append(@, CurrentNode.cmd.id)]
  /\ Executed(CurrentNode)
  /\ UNCHANGED <<schedVars, ppc, work, m_completed_fence_counter, m_current_cmd_buffer,
                 m_pending_submits, m_submit_worker_idle, m_pending_fences,
                 spc, submit_cur, submit_calls, ran,
                 gpuVars, recorded>>
  /\ UNCHANGED <<presentVars, drained, checks, phase>>

\* What vkQueuePresentKHR may return: success, or the swap chain is out of date.
PresentResults == {"VK_SUCCESS", "VK_ERROR_OUT_OF_DATE_KHR"}

\* A present whose result is dropped: neither stored nor flagged.
QueuePresentDropsResult(present, gen) ==
  IF present
    THEN \E result \in PresentResults :
           /\ m_last_present_done' = TRUE
           /\ presents' = Append(presents, [gen |-> gen, result |-> result])
           /\ UNCHANGED <<m_last_present_result, m_last_present_failed>>
    ELSE UNCHANGED presentVars

\* The present of a submit that names a swap chain: the result is stored,
\* last_present_done is set, and last_present_failed is set on a failure.
QueuePresent(present, gen) ==
  IF present
    THEN \E result \in PresentResults :
           /\ m_last_present_result' = result
           /\ m_last_present_done' = TRUE
           /\ m_last_present_failed' =
                (IF result # "VK_SUCCESS" THEN TRUE ELSE m_last_present_failed)
           /\ presents' = Append(presents, [gen |-> gen, result |-> result])
    ELSE UNCHANGED presentVars

\* The driver's queue submit of one slot, and the hand-over of its fence.
DriverSubmit(buffers, idx) ==
  /\ gpu_queue' = Append(gpu_queue, buffers[idx].fence_counter)
  /\ m_pending_fences' =
       Append(m_pending_fences, [fence |-> idx, counter |-> buffers[idx].fence_counter])
  /\ m_command_buffers' = [buffers EXCEPT ![idx].state = "InFlight"]

\* CommandBufferManager::SubmitCommandBuffer, steps 1 to 4, on the thread
\* that runs the submit closure
CbmSubmit(cmd) ==
  LET stamped == [m_command_buffers EXCEPT
                    ![m_current_cmd_buffer].fence_counter = cmd.gen,
                    ![m_current_cmd_buffer].state = "Submitted"]
  IN /\ submit_calls' = Append(submit_calls, cmd.gen)
     /\ IF cmd.on_worker
          THEN /\ m_pending_submits' =
                    Append(m_pending_submits,
                           [command_buffer_index |-> m_current_cmd_buffer,
                            present |-> cmd.present])
               /\ m_submit_worker_idle' = FALSE
               /\ m_command_buffers' = stamped
               /\ UNCHANGED <<m_pending_fences, gpu_queue, presentVars>>
          ELSE /\ DriverSubmit(stamped, m_current_cmd_buffer)
               /\ QueuePresent(cmd.present, cmd.gen)
               /\ UNCHANGED <<m_pending_submits, m_submit_worker_idle>>

\* The submit closure on the recording worker
ExecuteSubmit ==
  /\ Executing("submit")
  /\ LET cmd == CurrentNode.cmd
     IN /\ CbmSubmit(cmd)
        /\ wpc' = IF cmd.on_worker /\ cmd.wait THEN "cbm_wait_idle" ELSE "cbm_begin"
  /\ UNCHANGED <<schedVars, ppc, work, command, m_completed_fence_counter,
                 m_current_cmd_buffer, spc, submit_cur, ran,
                 signalled, recorded, executed>>
  /\ UNCHANGED <<drained, checks, phase>>

\* CommandBufferManager::SubmitCommandBuffer, step 4: wait for the submission
\* worker (WaitForSubmitWorkerThreadIdle)
CbmWaitSubmitIdle ==
  /\ wpc = "cbm_wait_idle"
  /\ m_submit_worker_idle
  /\ wpc' = "cbm_begin"
  /\ UNCHANGED <<schedVars, ppc, work, command, cbmVars, gpuVars,
                 recorded, executed>>
  /\ UNCHANGED <<presentVars, drained, checks, phase>>

NextCmdBuffer == (m_current_cmd_buffer + 1) % NumSlots

\* A slot taken for recording without waiting for its fence.
SlotReclaimableAlways(slot) == TRUE

\* The slot may be recorded into again: its fence has signalled.
SlotReclaimable(slot) == slot.state = "Retired"

\* CommandBufferManager::SubmitCommandBuffer, steps 5 and 6
\* (BeginCommandBuffer), on the thread that runs the submit closure
CbmBeginCommandBuffer ==
  /\ SlotReclaimable(m_command_buffers[NextCmdBuffer])
  /\ m_current_cmd_buffer' = NextCmdBuffer
  /\ RunCleanup(m_command_buffers, {NextCmdBuffer})
  /\ m_command_buffers' =
       [Cleared(m_command_buffers, {NextCmdBuffer}) EXCEPT
          ![NextCmdBuffer].state = "Recording"]

\* The end of the submit closure on the recording worker
CbmBegin ==
  /\ wpc = "cbm_begin"
  /\ CbmBeginCommandBuffer
  /\ Executed(CurrentNode)
  /\ UNCHANGED <<schedVars, ppc, work, m_completed_fence_counter,
                 m_pending_submits, m_submit_worker_idle, m_pending_fences,
                 spc, submit_cur, submit_calls,
                 gpuVars, recorded>>
  /\ UNCHANGED <<presentVars, drained, checks, phase>>

\* Scheduler::WorkerThread, lines 99-103: the end of ExecuteAll, and the
\* return of the chunk to the reserve
WorkerRelease ==
  /\ wpc = "exec"
  /\ command = Null
  /\ m_chunk_reserve' = Append(m_chunk_reserve, ChunkReset(work))
  /\ drained' = Append(drained, [n \in DOMAIN work.nodes |-> work.nodes[n].cmd.id])
  /\ work' = NoChunk
  /\ wpc' = "check"
  /\ UNCHANGED <<m_chunk, m_work_queue, m_worker_idle, m_submit_loop,
                 m_current_fence_counter,
                 allocated, ppc, command, cbmVars, gpuVars,
                 recorded, executed>>
  /\ UNCHANGED <<presentVars, checks, phase>>

\* A worker that declares itself idle whatever the queue holds.
WorkerCheckIdleAlways ==
  /\ wpc = "check"
  /\ m_worker_idle' = TRUE
  /\ wpc' = "top"
  /\ UNCHANGED <<m_chunk, m_work_queue, m_submit_loop, m_chunk_reserve,
                 m_current_fence_counter,
                 allocated, ppc, work, command, cbmVars, gpuVars,
                 recorded, executed>>
  /\ UNCHANGED <<presentVars, drained, checks, phase>>

\* Scheduler::WorkerThread, lines 104-111
WorkerCheckIdle ==
  /\ wpc = "check"
  /\ m_worker_idle' = (IF m_work_queue = <<>> THEN TRUE ELSE m_worker_idle)
  /\ wpc' = "top"
  /\ UNCHANGED <<m_chunk, m_work_queue, m_submit_loop, m_chunk_reserve,
                 m_current_fence_counter,
                 allocated, ppc, work, command, cbmVars, gpuVars,
                 recorded, executed>>
  /\ UNCHANGED <<presentVars, drained, checks, phase>>

\* ------------------------------------------------------- submission worker
SubmitWorkerDequeue ==
  /\ spc = "top"
  /\ m_pending_submits # <<>>
  /\ submit_cur' = Head(m_pending_submits)
  /\ m_pending_submits' = Tail(m_pending_submits)
  /\ spc' = "submit"
  /\ UNCHANGED <<schedVars, ppc, workerVars, m_completed_fence_counter,
                 m_command_buffers, m_current_cmd_buffer, m_submit_worker_idle,
                 m_pending_fences, submit_calls, ran,
                 gpuVars, recorded, executed>>
  /\ UNCHANGED <<presentVars, drained, checks, phase>>

SubmitWorkerSubmit ==
  /\ spc = "submit"
  /\ DriverSubmit(m_command_buffers, submit_cur.command_buffer_index)
  /\ QueuePresent(submit_cur.present,
                  m_command_buffers[submit_cur.command_buffer_index].fence_counter)
  /\ m_submit_worker_idle' = (m_pending_submits = <<>>)
  /\ submit_cur' = NoSubmit
  /\ spc' = "top"
  /\ UNCHANGED <<schedVars, ppc, workerVars, m_completed_fence_counter,
                 m_current_cmd_buffer, m_pending_submits,
                 submit_calls, ran, signalled, recorded, executed>>
  /\ UNCHANGED <<drained, checks, phase>>

\* --------------------------------------------------------------------- GPU
\* The GPU finishes the oldest submitted command buffer and signals its fence.
GpuSignal ==
  /\ gpu_queue # <<>>
  /\ signalled' = signalled \cup {Head(gpu_queue)}
  /\ gpu_queue' = Tail(gpu_queue)
  /\ m_command_buffers' =
       [i \in Slots |->
          IF m_command_buffers[i].fence_counter = Head(gpu_queue)
            THEN [m_command_buffers[i] EXCEPT !.state = "Retired"]
            ELSE m_command_buffers[i]]
  /\ UNCHANGED <<schedVars, ppc, workerVars, m_completed_fence_counter,
                 m_current_cmd_buffer, m_pending_submits, m_submit_worker_idle,
                 m_pending_fences, spc, submit_cur, submit_calls,
                 ran, recorded, executed>>
  /\ UNCHANGED <<presentVars, drained, checks, phase>>

\* ------------------------------------------------------------ fence worker
\* The fence worker: the oldest pending fence has signalled
FenceWorker ==
  /\ m_pending_fences # <<>>
  /\ LET counter == Head(m_pending_fences).counter
     IN /\ counter \in signalled
        /\ m_completed_fence_counter' = Max(m_completed_fence_counter, counter)
        /\ RunCleanup(m_command_buffers, CompletedSlots(m_command_buffers, counter))
        /\ m_command_buffers' =
             Cleared(m_command_buffers, CompletedSlots(m_command_buffers, counter))
  /\ m_pending_fences' = Tail(m_pending_fences)
  /\ UNCHANGED <<schedVars, ppc, workerVars, m_current_cmd_buffer, m_pending_submits,
                 m_submit_worker_idle, spc, submit_cur,
                 submit_calls, gpuVars, recorded, executed>>
  /\ UNCHANGED <<presentVars, drained, checks, phase>>

\* ------------------------------------------------------------------- Spec
Next ==
  \/ CallRecord
  \/ CallFlush
  \/ CallSyncWorker
  \/ CallWaitForFenceCounter
  \/ CallSubmitCommandBuffer
  \/ ProducerFlush
  \/ ProducerAcquire
  \/ ProducerWaitIdle
  \/ ProducerWaitForFence
  \/ ProducerCbmWait
  \/ ProducerReturn
  \/ WorkerTop
  \/ WorkerSleep
  \/ ExecuteDraw
  \/ ExecuteSubmit
  \/ CbmWaitSubmitIdle
  \/ CbmBegin
  \/ WorkerRelease
  \/ WorkerCheckIdle
  \/ SubmitWorkerDequeue
  \/ SubmitWorkerSubmit
  \/ GpuSignal
  \/ FenceWorker

Spec == Init /\ [][Next]_vars

\* ------------------------------------------------- a run that shuts down
\* The producer makes any of the calls above, then calls Shutdown; after
\* Shutdown has returned it records one more closure, and may flush and wait.

\* Scheduler::Shutdown
CallShutdown ==
  /\ ppc = <<>>
  /\ phase = "run"
  /\ DoFlush(ShutdownSteps \o Ret("Shutdown", 0))
  /\ phase' = "shutdown"
  /\ UNCHANGED othersOfProducer
  /\ UNCHANGED <<presentVars, drained, checks>>

\* Scheduler::Record, called after Shutdown has returned
LateRecord ==
  /\ ppc = <<>>
  /\ phase = "shutdown"
  /\ LET cmd == Cmd(Len(recorded) + 1, "draw", DRAW_CMD_SIZE, 0, FALSE, FALSE)
     IN /\ DoRecord(RecordSteps(cmd))
        /\ recorded' = Append(recorded, [cmd |-> cmd, cur |-> m_current_fence_counter])
  /\ phase' = "late"
  /\ UNCHANGED <<m_current_fence_counter, workerVars, cbmVars, gpuVars, executed>>
  /\ UNCHANGED <<presentVars, drained, checks>>

NextShutdown ==
  \/ Next
  \/ CallShutdown
  \/ LateRecord
  \/ ProducerWaitSubmitIdle

SpecShutdown == Init /\ [][NextShutdown]_vars

\* --------------------------------------------------- a run that presents
\* The producer submits with a swap chain to present to, and polls
\* CheckLastPresentFail; each present succeeds or fails.

\* A test that leaves the flag set.
TestWithoutClear(flag) == [result |-> flag, flag |-> flag]

\* Common::Flag::TestAndClear: what it returns and what it leaves.
TestAndClear(flag) == [result |-> flag, flag |-> FALSE]

\* The presents that have failed so far.
PresentFailures ==
  Cardinality({i \in DOMAIN presents : presents[i].result # "VK_SUCCESS"})

\* Scheduler::CheckLastPresentFail
CallCheckLastPresentFail ==
  /\ ppc = <<>>
  /\ Len(checks) < MaxChecks
  /\ m_last_present_failed' = TestAndClear(m_last_present_failed).flag
  /\ checks' = Append(checks, [result |-> TestAndClear(m_last_present_failed).result,
                               failures |-> PresentFailures])
  /\ UNCHANGED <<schedVars, ppc, workerVars, cbmVars, gpuVars, recorded, executed>>
  /\ UNCHANGED <<m_last_present_done, m_last_present_result, presents, drained, phase>>

\* Scheduler::SubmitCommandBuffer with a swap chain to present to
CallSubmitAndPresent ==
  /\ ppc = <<>>
  /\ m_current_fence_counter < MaxFence
  /\ \E submit_on_worker_thread \in BOOLEAN, wait_for_completion \in BOOLEAN :
       LET fence_counter == NextFenceCounter(m_current_fence_counter)
           cmd == [Cmd(Len(recorded) + 1, "submit", SUBMIT_CMD_SIZE,
                       fence_counter, submit_on_worker_thread, wait_for_completion)
                     EXCEPT !.present = TRUE]
       IN /\ m_current_fence_counter' = IncrementedFenceCounter(m_current_fence_counter)
          /\ DoRecord(SubmitSteps(cmd))
          /\ recorded' = Append(recorded, [cmd |-> cmd, cur |-> fence_counter])
  /\ UNCHANGED <<workerVars, cbmVars, gpuVars, executed>>
  /\ UNCHANGED <<presentVars, drained, checks, phase>>

\* What the producer does inside a call it has made.
ProducerStep ==
  \/ ProducerFlush
  \/ ProducerAcquire
  \/ ProducerWaitIdle
  \/ ProducerWaitForFence
  \/ ProducerCbmWait
  \/ ProducerReturn

\* The recording worker's loop.
RecordingWorker ==
  \/ WorkerTop
  \/ WorkerSleep
  \/ ExecuteSubmit
  \/ CbmWaitSubmitIdle
  \/ CbmBegin
  \/ WorkerRelease
  \/ WorkerCheckIdle

\* The submission worker's loop.
SubmissionWorker ==
  \/ SubmitWorkerDequeue
  \/ SubmitWorkerSubmit

NextPresent ==
  \/ CallSubmitAndPresent
  \/ CallCheckLastPresentFail
  \/ ProducerStep
  \/ RecordingWorker
  \/ SubmissionWorker
  \/ GpuSignal
  \/ FenceWorker

\* Every thread that can take a step eventually takes one, a call that was
\* made goes on, and the GPU finishes what it was given.
SpecPresent ==
  /\ Init
  /\ [][NextPresent]_vars
  /\ WF_vars(ProducerStep)
  /\ WF_vars(RecordingWorker)
  /\ WF_vars(SubmissionWorker)
  /\ WF_vars(GpuSignal)
  /\ WF_vars(FenceWorker)

\* ------------------------------------------- VULKAN_DISABLE_THREADING
\* A build with VULKAN_DISABLE_THREADING: Scheduler::Record runs the closure
\* on the calling thread and returns (VKScheduler.h:104-107); everything else
\* is the same code.  The producer's calls are the same as in Next.

\* The build is one with VULKAN_DISABLE_THREADING; fixed before the first call.
BuildInline ==
  /\ phase = "run"
  /\ ppc = <<>>
  /\ recorded = <<>>
  /\ wpc = "top"
  /\ m_submit_loop = "running"
  /\ phase' = "inline"
  /\ UNCHANGED <<schedVars, ppc, workerVars, cbmVars, gpuVars, recorded, executed>>
  /\ UNCHANGED <<presentVars, drained, checks>>

\* A Record that ignores the switch: the closure is stored in the chunk.
InlineRecordDeferred ==
  /\ ppc = <<>>
  /\ phase = "inline"
  /\ NDraws < MaxRecords
  /\ LET cmd == Cmd(Len(recorded) + 1, "draw", DRAW_CMD_SIZE, 0, FALSE, FALSE)
     IN /\ DoRecord(RecordSteps(cmd))
        /\ recorded' = Append(recorded, [cmd |-> cmd, cur |-> m_current_fence_counter])
  /\ UNCHANGED <<m_current_fence_counter, workerVars, cbmVars, gpuVars, executed>>
  /\ UNCHANGED <<presentVars, drained, checks, phase>>

\* Scheduler::Record of a closure that draws and defers a destruction: the
\* closure runs at once
InlineRecord ==
  /\ ppc = <<>>
  /\ phase = "inline"
  /\ NDraws < MaxRecords
  /\ LET cmd == Cmd(Len(recorded) + 1, "draw", DRAW_CMD_SIZE, 0, FALSE, FALSE)
     IN /\ recorded' = Append(recorded, [cmd |-> cmd, cur |-> m_current_fence_counter])
        /\ m_command_buffers' =
             [m_command_buffers EXCEPT ![m_current_cmd_buffer].cleanup_resources =
                Append(@, cmd.id)]
        /\ executed' = Append(executed, cmd.id)
  /\ UNCHANGED <<schedVars, ppc, workerVars, m_completed_fence_counter,
                 m_current_cmd_buffer, m_pending_submits, m_submit_worker_idle,
                 m_pending_fences, spc, submit_cur, submit_calls, ran, gpuVars>>
  /\ UNCHANGED <<presentVars, drained, checks, phase>>

\* Scheduler::SubmitCommandBuffer: the submit closure runs inside Record, up to
\* the hand-over of the command buffer; the rest of the closure and of
\* SubmitCommandBuffer follow
InlineSubmit ==
  /\ ppc = <<>>
  /\ phase = "inline"
  /\ m_current_fence_counter < MaxFence
  /\ \E submit_on_worker_thread \in BOOLEAN, wait_for_completion \in BOOLEAN :
       LET fence_counter == NextFenceCounter(m_current_fence_counter)
           cmd == Cmd(Len(recorded) + 1, "submit", SUBMIT_CMD_SIZE,
                      fence_counter, submit_on_worker_thread, wait_for_completion)
       IN /\ m_current_fence_counter' = IncrementedFenceCounter(m_current_fence_counter)
          /\ recorded' = Append(recorded, [cmd |-> cmd, cur |-> fence_counter])
          /\ CbmSubmit(cmd)
          /\ ppc' = (IF cmd.on_worker /\ cmd.wait
                       THEN <<Step("inline_wait_idle", NoCmd, cmd.id)>> ELSE <<>>)
                    \o <<Step("inline_begin", NoCmd, cmd.id)>>
                    \o (IF cmd.wait
                          THEN WaitForFenceCounterSteps(cmd.gen)
                                 \o Ret("SubmitCommandBuffer", cmd.gen)
                          ELSE FlushSteps)
  /\ UNCHANGED <<m_chunk, m_work_queue, m_worker_idle, m_submit_loop,
                 m_chunk_reserve, allocated, workerVars,
                 m_completed_fence_counter, m_current_cmd_buffer, spc, submit_cur,
                 ran, signalled, executed>>
  /\ UNCHANGED <<drained, checks, phase>>

\* The submit closure on the producer: WaitForSubmitWorkerThreadIdle
InlineCbmWaitSubmitIdle ==
  /\ AtStep("inline_wait_idle")
  /\ m_submit_worker_idle
  /\ ppc' = Tail(ppc)
  /\ UNCHANGED <<schedVars, workerVars, cbmVars, gpuVars, recorded, executed>>
  /\ UNCHANGED <<presentVars, drained, checks, phase>>

\* The submit closure on the producer: BeginCommandBuffer, and its return
InlineCbmBegin ==
  /\ AtStep("inline_begin")
  /\ CbmBeginCommandBuffer
  /\ executed' = Append(executed, Head(ppc).n)
  /\ ppc' = Tail(ppc)
  /\ UNCHANGED <<schedVars, workerVars, m_completed_fence_counter,
                 m_pending_submits, m_submit_worker_idle, m_pending_fences,
                 spc, submit_cur, submit_calls, gpuVars, recorded>>
  /\ UNCHANGED <<presentVars, drained, checks, phase>>

\* Both builds: the threaded one, and after BuildInline the inline one.
NextModes ==
  \/ Next
  \/ BuildInline
  \/ InlineRecord
  \/ InlineSubmit
  \/ InlineCbmWaitSubmitIdle
  \/ InlineCbmBegin

SpecModes == Init /\ [][NextModes]_vars

\* ------------------------------------------- a run of records and submits
\* The producer records and submits, and nothing says it will ever make
\* another call or go on with the one it is in; the workers are scheduled
\* fairly and the GPU finishes what it is given.
NextSubmit ==
  \/ CallRecord
  \/ CallSubmitCommandBuffer
  \/ ProducerStep
  \/ ExecuteDraw
  \/ RecordingWorker
  \/ SubmissionWorker
  \/ GpuSignal
  \/ FenceWorker

SpecSubmit ==
  /\ Init
  /\ [][NextSubmit]_vars
  /\ WF_vars(RecordingWorker \/ ExecuteDraw)
  /\ WF_vars(SubmissionWorker)
  /\ WF_vars(GpuSignal)
  /\ WF_vars(FenceWorker)

\* ---------------------------------------------- a run that reuses its slots
\* The producer records closures that defer a destruction, submits often
\* enough for the ring of command buffers to come round to a slot a second
\* time, and may wait for the completion of a submit.

\* Scheduler::SubmitCommandBuffer, up to MaxReuseFence
ReuseSubmit ==
  /\ ppc = <<>>
  /\ m_current_fence_counter < MaxReuseFence
  /\ \E submit_on_worker_thread \in BOOLEAN, wait_for_completion \in BOOLEAN :
       LET fence_counter == NextFenceCounter(m_current_fence_counter)
           cmd == Cmd(Len(recorded) + 1, "submit", SUBMIT_CMD_SIZE,
                      fence_counter, submit_on_worker_thread, wait_for_completion)
       IN /\ m_current_fence_counter' = IncrementedFenceCounter(m_current_fence_counter)
          /\ DoRecord(SubmitSteps(cmd))
          /\ recorded' = Append(recorded, [cmd |-> cmd, cur |-> fence_counter])
  /\ UNCHANGED <<workerVars, cbmVars, gpuVars, executed>>
  /\ UNCHANGED <<presentVars, drained, checks, phase>>

NextReuse ==
  \/ CallRecord
  \/ ReuseSubmit
  \/ ProducerStep
  \/ ExecuteDraw
  \/ RecordingWorker
  \/ SubmissionWorker
  \/ GpuSignal
  \/ FenceWorker

SpecReuse == Init /\ [][NextReuse]_vars

\* ------------------------------------------------ a run that fills chunks
\* The producer records closures of several sizes and alignments, may flush,
\* then calls SyncWorker once; the recording worker runs beside it.

\* sizeof and alignof of TypedCommand<T> for the closures recorded: three fit
\* in a chunk; one nearly fills a chunk; a small one with an over-aligned
\* capture.  Each passes the static_assert of CommandChunk::Record.
ClosureTypes ==
  {[size |-> 10912, align |-> CMD_ALIGN],
   [size |-> 32720, align |-> CMD_ALIGN],
   [size |-> 64, align |-> 64]}

TypeOf(cmd) == [size |-> cmd.size, align |-> cmd.align]

\* Scheduler::Record of a closure of one of the types
ArenaRecord ==
  /\ ppc = <<>>
  /\ phase = "run"
  /\ Len(recorded) < MaxArenaRecords
  /\ \E t \in ClosureTypes :
       LET cmd == [Cmd(Len(recorded) + 1, "draw", t.size, 0, FALSE, FALSE)
                     EXCEPT !.align = t.align]
       IN /\ IF Len(recorded) < MaxMixed THEN TRUE
             ELSE t = TypeOf(recorded[Len(recorded)].cmd)
          /\ DoRecord(RecordSteps(cmd))
          /\ recorded' = Append(recorded, [cmd |-> cmd, cur |-> m_current_fence_counter])
  /\ UNCHANGED <<m_current_fence_counter, workerVars, cbmVars, gpuVars, executed>>
  /\ UNCHANGED <<presentVars, drained, checks, phase>>

\* Scheduler::Flush, after the last Record
ArenaFlush ==
  /\ ppc = <<>>
  /\ phase = "run"
  /\ DoFlush(FlushSteps)
  /\ phase' = "flushed"
  /\ UNCHANGED othersOfProducer
  /\ UNCHANGED <<presentVars, drained, checks>>

\* Scheduler::SyncWorker, the last call of the run
ArenaSyncWorker ==
  /\ ppc = <<>>
  /\ phase \in {"run", "flushed"}
  /\ DoFlush(SyncWorkerSteps \o Ret("SyncWorker", 0))
  /\ phase' = "synced"
  /\ UNCHANGED othersOfProducer
  /\ UNCHANGED <<presentVars, drained, checks>>

NextArena ==
  \/ ArenaRecord
  \/ ArenaFlush
  \/ ArenaSyncWorker
  \/ ProducerAcquire
  \/ ProducerWaitIdle
  \/ ProducerReturn
  \/ WorkerTop
  \/ WorkerSleep
  \/ ExecuteDraw
  \/ WorkerRelease
  \/ WorkerCheckIdle

SpecArena == Init /\ [][NextArena]_vars

\* The same run where only the producer is sure to go on: a Record that has
\* flushed goes on to acquire its chunk, while the worker may stop anywhere
\* and for ever.
SpecRecord == Init /\ [][NextArena]_vars /\ WF_vars(ProducerAcquire)

\* The same run with a Flush that comes exactly when the worker has found the
\* queue empty, set the idle flag and allowed its loop to sleep, and the loop
\* has not gone to sleep yet; it is the last call of the run.
RaceFlush ==
  /\ ppc = <<>>
  /\ phase = "run"
  /\ m_submit_loop = "may_sleep"
  /\ ~ChunkEmpty(m_chunk)
  /\ DoFlush(FlushSteps)
  /\ phase' = "raced"
  /\ UNCHANGED othersOfProducer
  /\ UNCHANGED <<presentVars, drained, checks>>

NextWake ==
  \/ NextArena
  \/ RaceFlush

\* The producer goes on inside a call it has made.
ArenaProducer ==
  \/ ProducerAcquire
  \/ ProducerWaitIdle
  \/ ProducerReturn

\* The thread of Scheduler::WorkerThread, with closures that return.
ArenaWorker ==
  \/ WorkerTop
  \/ WorkerSleep
  \/ ExecuteDraw
  \/ WorkerRelease
  \/ WorkerCheckIdle

\* Both threads are scheduled fairly; no call is ever sure to be made.
SpecWake ==
  /\ Init
  /\ [][NextWake]_vars
  /\ WF_vars(ArenaProducer)
  /\ WF_vars(ArenaWorker)

\* ----------------------------------------------------------------- claims
RECURSIVE Walk(_, _)
\* The ids of the closures ExecuteAll has yet to run from a node on.
Walk(chunk, ptr) ==
  IF ptr = Null THEN <<>>
  ELSE <<NodeAt(chunk, ptr).cmd.id>> \o Walk(chunk, NodeAt(chunk, ptr).next)

RECURSIVE Flatten(_)
Flatten(queue) ==
  IF queue = <<>> THEN <<>>
  ELSE Walk(Head(queue), Head(queue).first) \o Flatten(Tail(queue))

\* The closures Record was called with and that have not run, in the order in
\* which the worker will come to them.
NotYetExecuted ==
  (IF work = NoChunk THEN <<>> ELSE Walk(work, command))
  \o Flatten(m_work_queue)
  \o Walk(m_chunk, m_chunk.first)
  \o (IF AtStep("acquire") /\ Head(ppc).cmd.kind # "none"
        THEN <<Head(ppc).cmd.id>> ELSE <<>>)

RecordedIds == [i \in DOMAIN recorded |-> recorded[i].cmd.id]

AtRet(op) == AtStep("ret") /\ Head(ppc).of = op

AllExecuted == executed = RecordedIds

\* C1: the closures the worker has executed, followed by those still held in
\* the worker's chunk, the work queue and the current chunk, are exactly the
\* closures recorded, in recording order: none is skipped, duplicated or
\* reordered, across chunks, flushes and submits.
C1_OrderPreserved == executed \o NotYetExecuted = RecordedIds

\* C1 witness: closures spread over two chunks and a submit have all run.
C1_Witness ==
  /\ Len(recorded) >= 3
  /\ allocated >= 2
  /\ \E i \in DOMAIN recorded : recorded[i].cmd.kind = "submit"
  /\ AllExecuted

\* C2: when SyncWorker returns the work queue is empty, the worker holds no
\* chunk and every closure recorded before the call has been executed.
C2_SyncWorkerDrains ==
  AtRet("SyncWorker") =>
    /\ m_work_queue = <<>>
    /\ work = NoChunk
    /\ AllExecuted

\* C2 witness: SyncWorker returns after closures from two chunks have run.
C2_Witness ==
  /\ AtRet("SyncWorker")
  /\ Len(executed) >= 3
  /\ allocated >= 2

SubmitIndexes == {i \in DOMAIN recorded : recorded[i].cmd.kind = "submit"}

\* The closures the worker has run: those that have returned and, inside
\* CommandBufferManager::SubmitCommandBuffer, the submit closure whose command
\* buffer has been handed on and which is preparing the next slot.
Run ==
  executed \o (IF wpc \in {"cbm_wait_idle", "cbm_begin"}
                 THEN <<CurrentNode.cmd.id>> ELSE <<>>)

\* The submit closure of generation g has submitted its command buffer, after
\* everything recorded before it was executed, in recording order.
ExecutedThrough(g) ==
  \A i \in SubmitIndexes :
    recorded[i].cmd.gen <= g =>
      /\ Len(Run) >= i
      /\ \A k \in 1 .. i : Run[k] = recorded[k].cmd.id

SubmitGens ==
  LET subs == SelectSeq(recorded, LAMBDA r : r.cmd.kind = "submit")
  IN [k \in DOMAIN subs |-> subs[k].cmd.gen]

\* The generation of the command buffer a recorded closure is submitted in:
\* that of the first submit recorded after it (0: none yet).
BufferGen(i) ==
  LET later == {j \in SubmitIndexes : j > i}
  IN IF later = {} THEN 0
     ELSE recorded[CHOOSE j \in later : \A k \in later : j <= k].cmd.gen

\* C4: for every closure recorded while GetCurrentFenceCounter() = N,
\* GetCompletedFenceCounter() >= N implies that the command buffer the closure
\* was submitted in has had its fence signalled.
C4_CompletedCoversRecorded ==
  \A i \in DOMAIN recorded :
    (recorded[i].cmd.kind = "draw" /\ m_completed_fence_counter >= recorded[i].cur)
      => BufferGen(i) \in signalled

\* C5: on a fresh scheduler the first three submits are assigned the
\* generations 1, 2 and 3.
C5_FirstGenerations ==
  \A k \in DOMAIN SubmitGens : k <= 3 => SubmitGens[k] = k

\* C6: every submit obtains the generation one above the previous submit's,
\* the counter is changed by nothing else (it is the last generation handed
\* out, or its initial value), and CommandBufferManager::SubmitCommandBuffer
\* has been invoked with the generations in that same increasing order.
C6_MonotonicGenerations ==
  /\ \A k \in DOMAIN SubmitGens :
       SubmitGens[k] = (IF k = 1 THEN INITIAL_FENCE_COUNTER ELSE SubmitGens[k - 1]) + 1
  /\ m_current_fence_counter =
       (IF SubmitGens = <<>> THEN INITIAL_FENCE_COUNTER
        ELSE SubmitGens[Len(SubmitGens)])
  /\ Len(submit_calls) <= Len(SubmitGens)
  /\ \A k \in DOMAIN submit_calls : submit_calls[k] = SubmitGens[k]

\* C6 witness: two submits have reached CommandBufferManager.
C6_Witness == Len(submit_calls) = 2 /\ submit_calls[2] > submit_calls[1]

\* C7: the completed fence counter never exceeds the current fence counter.
C7_CompletedAtMostCurrent == m_completed_fence_counter <= m_current_fence_counter

\* C7 witness: the fence worker has advanced completed up to current, after
\* two submits.
C7_Witness ==
  /\ m_completed_fence_counter = m_current_fence_counter
  /\ Len(SubmitGens) = 2

\* C8: whenever completed >= g, the fence of every submit of generation <= g
\* has been signalled, for any mix of on-worker and inline submits.
C8_CompletedImpliesSignalled ==
  \A k \in DOMAIN SubmitGens :
    SubmitGens[k] <= m_completed_fence_counter => SubmitGens[k] \in signalled

\* The closures whose deferred destruction belongs to generation g.
DrawsOf(g) == {i \in DOMAIN recorded : recorded[i].cmd.kind = "draw" /\ BufferGen(i) = g}

SubmitIndexOf(g) == CHOOSE i \in SubmitIndexes : recorded[i].cmd.gen = g

HasRun(cb) == \E r \in ran : r.cb = cb

\* A slot being recorded into, after an earlier submit of it, holds nothing of
\* that submit: the fence it was submitted with has signalled, the callbacks
\* deferred on it for that generation have run, and those it holds were
\* deferred after that submit.
SlotReclaimed(slot) ==
  (slot.state = "Recording" /\ slot.fence_counter # 0) =>
    /\ slot.fence_counter \in signalled
    /\ \A cb \in DrawsOf(slot.fence_counter) : HasRun(cb)
    /\ \A k \in DOMAIN slot.cleanup_resources :
         slot.cleanup_resources[k] > SubmitIndexOf(slot.fence_counter)

\* C9: no slot of the ring is recorded into again until the fence of the
\* generation it was last submitted with has signalled and the cleanup
\* callbacks of that generation have run.
C9_ReclaimBeforeRecord == \A i \in Slots : SlotReclaimed(m_command_buffers[i])

\* C9 witness: the ring has wrapped: slot 0 is recorded into for the second
\* time and a callback deferred on it has run.
C9_Witness ==
  /\ m_command_buffers[0].state = "Recording"
  /\ m_command_buffers[0].fence_counter # 0
  /\ DrawsOf(m_command_buffers[0].fence_counter) # {}

\* C10: a callback deferred on the slot submitted with generation g runs only
\* once g's fence has signalled, and has run when that slot is recorded into
\* again.
C10_CleanupAfterSignal ==
  /\ \A r \in ran : r.state = "Retired"
  /\ \A i \in Slots : SlotReclaimed(m_command_buffers[i])

\* Every chunk that holds closures or is about to: the producer's, those in
\* the work queue and the worker's.
LiveChunks ==
  {m_chunk, work} \cup {m_work_queue[i] : i \in DOMAIN m_work_queue}

AllChunks == LiveChunks \cup {m_chunk_reserve[i] : i \in DOMAIN m_chunk_reserve}

\* The nodes a chunk holds lie inside data, each at a multiple of its
\* alignment, and no two of them overlap.
NodesWellPlaced(chunk) ==
  /\ \A n \in DOMAIN chunk.nodes :
       LET node == chunk.nodes[n] IN
         /\ node.offset % node.cmd.align = 0
         /\ node.offset >= 0
         /\ node.offset + node.cmd.size <= CHUNK_BYTES
  /\ \A n1, n2 \in DOMAIN chunk.nodes :
       n1 < n2 => chunk.nodes[n1].offset + chunk.nodes[n1].cmd.size
                    <= chunk.nodes[n2].offset

\* C12: every node CommandChunk::Record has stored since the chunk's last
\* ExecuteAll lies at a multiple of its type's alignment, ends within
\* CHUNK_BYTES and overlaps no other node; and the cursor of every chunk is
\* at most CHUNK_BYTES.
C12_ArenaSafety ==
  /\ \A chunk \in LiveChunks : NodesWellPlaced(chunk)
  /\ \A chunk \in AllChunks : chunk.command_offset <= CHUNK_BYTES

\* C12 witness: a chunk holds an over-aligned closure placed after padding,
\* behind a closure whose end is not a multiple of that alignment.
C12_Witness ==
  \E chunk \in LiveChunks : \E n \in DOMAIN chunk.nodes :
    /\ n > 1
    /\ chunk.nodes[n].cmd.align > CMD_ALIGN
    /\ chunk.nodes[n].offset >
         chunk.nodes[n - 1].offset + chunk.nodes[n - 1].cmd.size

\* The step is a Scheduler::Record whose first CommandChunk::Record returned
\* false: it flushed, and has yet to acquire a chunk and retry.
RecordFailedFirst ==
  /\ ppc = <<>>
  /\ Len(recorded') = Len(recorded) + 1
  /\ ppc' # <<>>
  /\ Head(ppc').op = "acquire"
  /\ Head(ppc').cmd.kind # "none"

\* C13: when CommandChunk::Record returns false the chunk is exactly what it
\* was before the call: the chunk Record then flushes onto the work queue is
\* the chunk as it stood before the call.
C13_FailedRecordChangesNothing ==
  [][RecordFailedFirst => m_work_queue' = Append(m_work_queue, m_chunk)]_vars

\* The step ends a Scheduler::Record: at once, or with the retry on the chunk
\* acquired after the flush.
RecordReturns ==
  \/ /\ ppc = <<>>
     /\ Len(recorded') = Len(recorded) + 1
     /\ ~RecordFailedFirst
  \/ /\ AtStep("acquire")
     /\ Head(ppc).cmd.kind # "none"
     /\ ppc' = Tail(ppc)

\* The closure recorded last is the last node of the current chunk.
StoredLast ==
  /\ m_chunk.last # Null
  /\ NodeAt(m_chunk, m_chunk.last).cmd = recorded[Len(recorded)].cmd

\* C14: when Scheduler::Record returns, on the first attempt or after its one
\* flush and retry, the closure is stored in the current chunk, as its last
\* node.
C14_RecordStores == [][RecordReturns => StoredLast']_vars

\* C14 witness: Record has returned after a retry on a chunk that came back
\* from the reserve: the closure is the only node of a chunk drained before.
C14_Witness ==
  /\ ppc = <<>>
  /\ Len(recorded) >= 2
  /\ allocated = 1
  /\ drained # <<>>
  /\ Len(m_chunk.nodes) = 1
  /\ m_chunk.nodes[1].cmd.id = Len(recorded)

\* C19 as stated: when SyncWorker returns after closures that occupied m >= 1
\* chunks, the pool holds exactly m chunks.
C19_PoolSizeExact ==
  (AtRet("SyncWorker") /\ phase = "synced" /\ recorded # <<>>) =>
    Len(m_chunk_reserve) = Len(drained)

\* C19 amended: when SyncWorker returns after closures that occupied m
\* chunks, the pool holds every chunk allocated so far but the current one,
\* which is at most m chunks.
C19_PoolSizeAtMost ==
  (AtRet("SyncWorker") /\ phase = "synced") =>
    /\ Len(m_chunk_reserve) = allocated - 1
    /\ Len(m_chunk_reserve) <= Len(drained)

\* C19 witness: three chunks were drained and the pool holds fewer than
\* three, the producer having taken back a chunk the worker had released.
C19_Witness ==
  /\ AtRet("SyncWorker")
  /\ phase = "synced"
  /\ Len(drained) = 3
  /\ Len(m_chunk_reserve) < 3

\* All closures recorded are of one type.
Uniform ==
  \A i \in DOMAIN recorded : TypeOf(recorded[i].cmd) = TypeOf(recorded[1].cmd)

\* How many closures of a type fit in a chunk (sizeof is a multiple of alignof).
FitCount(t) == CHUNK_BYTES \div t.size

CeilDiv(n, k) == (n + k - 1) \div k

Min(a, b) == IF a <= b THEN a ELSE b

\* n closures in chunks of k: k, ..., k and the remainder, in recording order.
ChunksOf(n, k) ==
  [j \in 1 .. CeilDiv(n, k) |->
     [i \in 1 .. (Min(j * k, n) - (j - 1) * k) |-> (j - 1) * k + i]]

\* The chunks flushed and not yet drained.
Flushed ==
  {chunk \in {work} \cup {m_work_queue[i] : i \in DOMAIN m_work_queue} :
     chunk.nodes # <<>>}

\* The closure recorded after the last one of a flushed chunk did not fit in
\* that chunk (closures are numbered in recording order).
FlushedWhenFull(chunk) ==
  LET following == chunk.nodes[Len(chunk.nodes)].cmd.id + 1
  IN following <= Len(recorded) => ~ChunkFits(chunk, recorded[following].cmd)

\* C20: when SyncWorker returns after n closures of which exactly k fit in a
\* chunk, the worker has drained ceil(n/k) chunks holding k, ..., k and the
\* remainder, in recording order; and Record flushes a chunk only when the
\* closure it is recording does not fit in it.
C20_Spillover ==
  /\ (AtRet("SyncWorker") /\ phase = "synced" /\ recorded # <<>> /\ Uniform) =>
       drained = ChunksOf(Len(recorded), FitCount(TypeOf(recorded[1].cmd)))
  /\ \A chunk \in Flushed : FlushedWhenFull(chunk)

\* C20 witness: seven closures, three to a chunk, drained as 3, 3, 1.
C20_Witness ==
  /\ AtRet("SyncWorker")
  /\ Len(recorded) = 7
  /\ Len(drained) = 3
  /\ Len(drained[1]) = 3 /\ Len(drained[2]) = 3 /\ Len(drained[3]) = 1

\* The closures recorded before Shutdown was called.
RecordedBeforeShutdown ==
  IF phase = "late" THEN SubSeq(RecordedIds, 1, Len(recorded) - 1) ELSE RecordedIds

\* C15: when Shutdown returns, every closure recorded before the call has
\* been executed, the work queue is empty, the recording worker is idle at
\* the top of its loop, still running, and the submission worker has neither
\* a pending nor an in-flight submit.
C15_ShutdownDrains ==
  AtRet("Shutdown") =>
    /\ executed = RecordedBeforeShutdown
    /\ m_work_queue = <<>>
    /\ work = NoChunk
    /\ m_worker_idle
    /\ wpc = "top"
    /\ m_pending_submits = <<>>
    /\ spc = "top"
    /\ m_submit_worker_idle

\* C15 witness: Shutdown returns after a draw and a submit handed to the
\* submission worker have gone through both workers.
C15_Witness ==
  /\ AtRet("Shutdown")
  /\ \E i \in SubmitIndexes : recorded[i].cmd.on_worker
  /\ NDraws >= 1
  /\ Len(drained) >= 2

\* C16: a closure recorded after Shutdown has returned is not accepted into a
\* chunk, does not reach the work queue and is not executed.
C16_RejectsAfterShutdown ==
  phase = "late" =>
    \A k \in DOMAIN (executed \o NotYetExecuted) :
      (executed \o NotYetExecuted)[k] # Len(recorded)

\* The number of failed presents at the last call of CheckLastPresentFail
\* before the k-th that returned true (0: none has).
FailuresAtLastTrue(k) ==
  LET earlier == {j \in 1 .. k - 1 : checks[j].result}
  IN IF earlier = {} THEN 0
     ELSE checks[CHOOSE j \in earlier : \A i \in earlier : i <= j].failures

\* C17: a call of CheckLastPresentFail returns true exactly when a present
\* has failed since the last call that returned true (or since the start):
\* once per failure or burst of failures, and false until the next failure.
C17_PresentFlag ==
  \A k \in DOMAIN checks :
    checks[k].result = (checks[k].failures > FailuresAtLastTrue(k))

\* C17 witness: true after a failed present, false on the next call, true
\* again after a second failed present.
C17_Witness ==
  /\ Len(checks) = 3
  /\ checks[1].result /\ ~checks[2].result /\ checks[3].result
  /\ checks[3].failures = 2

SubmitGenerations == (INITIAL_FENCE_COUNTER + 1) .. MaxFence

Submitted(g) == \E i \in SubmitIndexes : recorded[i].cmd.gen = g

Presented(g) == \E i \in DOMAIN presents : presents[i].gen = g

PresentFailed(g) ==
  \E i \in DOMAIN presents :
    presents[i].gen = g /\ presents[i].result # "VK_SUCCESS"

FenceHandedOver(g) ==
  \/ \E i \in DOMAIN m_pending_fences : m_pending_fences[i].counter = g
  \/ m_completed_fence_counter >= g

\* After a present: its result is in last_present_result, and the fence of
\* its submit has been handed to the fence worker.
PresentRecorded ==
  /\ presents # <<>> => m_last_present_result = presents[Len(presents)].result
  /\ \A g \in SubmitGenerations : Presented(g) => FenceHandedOver(g)

\* C18: a failing present is stored in last_present_result, the fence of its
\* submit is still handed to the fence worker, its generation completes, and
\* every submit made, before or after the failure, completes as well.
C18_PresentFailureNotFatal ==
  /\ []PresentRecorded
  /\ \A g \in SubmitGenerations :
       (PresentFailed(g) ~> m_completed_fence_counter >= g)
  /\ \A g \in SubmitGenerations :
       (Submitted(g) ~> m_completed_fence_counter >= g)

\* C18 witness: the present of the first submit failed, and the submit made
\* after it has completed.
C18_Witness ==
  /\ PresentFailed(INITIAL_FENCE_COUNTER + 1)
  /\ Submitted(INITIAL_FENCE_COUNTER + 2)
  /\ m_completed_fence_counter >= INITIAL_FENCE_COUNTER + 2
  /\ m_last_present_result = "VK_SUCCESS"

FlushBegins == CallFlush \/ CallSyncWorker \/ ProducerFlush

\* C24: a Flush that finds the current chunk empty changes neither the work
\* queue, the idle flag, the pool, the current chunk nor the number of chunks
\* allocated, and sends the worker's loop no Wakeup.
C24_EmptyFlushNoOp ==
  [][(FlushBegins /\ ChunkEmpty(m_chunk)) =>
       UNCHANGED <<m_chunk, m_work_queue, m_worker_idle, m_submit_loop,
                   m_chunk_reserve, allocated>>]_vars

\* C24 witness: SyncWorker was called with nothing ever recorded, while the
\* worker's loop slept: its Flush found the first chunk empty, and the loop
\* sleeps on.
C24_Witness ==
  /\ AtStep("wait_idle")
  /\ recorded = <<>>
  /\ m_chunk = NewChunk(1)
  /\ m_submit_loop = "sleeping"

\* The idle flag is cleared by this step.
IdleCleared == m_worker_idle /\ ~m_worker_idle'

\* The idle flag is set by this step.
IdleSet == ~m_worker_idle /\ m_worker_idle'

\* C25: while m_worker_idle is true the work queue is empty and the worker
\* holds no chunk; the flag is cleared only by the step of Flush that pushes
\* the current chunk, and set only by a step of the worker that finds the
\* queue empty while it holds no chunk.
C25_IdleFlag ==
  /\ [](m_worker_idle =>
          /\ m_work_queue = <<>>
          /\ work = NoChunk
          /\ wpc = "top")
  /\ [][/\ IdleCleared =>
             /\ Len(m_work_queue') = Len(m_work_queue) + 1
             /\ m_work_queue'[Len(m_work_queue')].id = m_chunk.id
             /\ m_chunk' = NoChunk
        /\ IdleSet =>
             /\ m_work_queue = <<>>
             /\ m_work_queue' = <<>>
             /\ work = NoChunk
             /\ wpc \in {"top", "check"}
             /\ UNCHANGED <<m_chunk, ppc>>]_vars

\* C25 witness: the worker is idle again after it drained two chunks.
C25_Witness ==
  /\ m_worker_idle
  /\ Len(drained) >= 2
  /\ allocated >= 2

\* In how many of the four places the chunk of an id is.
PlacesOf(id) ==
  (IF m_chunk.id = id THEN 1 ELSE 0)
  + Cardinality({k \in DOMAIN m_work_queue : m_work_queue[k].id = id})
  + (IF work.id = id THEN 1 ELSE 0)
  + Cardinality({k \in DOMAIN m_chunk_reserve : m_chunk_reserve[k].id = id})

\* C26: every chunk allocated is in exactly one place: it is the producer's
\* current chunk, on the work queue, held by the worker, or in the reserve.
\* So the chunk the worker replays is never the one the producer records
\* into, and no chunk is lost or held twice.
C26_ExclusiveOwnership ==
  /\ \A id \in 1 .. allocated : PlacesOf(id) = 1
  /\ work # NoChunk => work.id # m_chunk.id

\* C26 witness: four chunks, one in each of the four places.
C26_Witness ==
  /\ m_chunk # NoChunk
  /\ m_work_queue # <<>>
  /\ work # NoChunk
  /\ m_chunk_reserve # <<>>

\* What AcquireNewChunk, and the Record that follows it in Scheduler::Record,
\* make of an empty chunk of an id.
Installed(id, cmd) ==
  IF cmd.kind = "none" THEN NewChunk(id) ELSE ChunkRecord(NewChunk(id), cmd)

\* C28: every chunk in the reserve is empty (command_offset 0, first and last
\* null, no node); the chunk AcquireNewChunk installs is empty before anything
\* is recorded into it, whether new or taken from the reserve; and the
\* producer holds a chunk except between the push of Flush and
\* AcquireNewChunk, so it holds one whenever Record, Flush or SyncWorker
\* begins.
C28_PoolChunksEmpty ==
  /\ [](/\ \A k \in DOMAIN m_chunk_reserve :
             m_chunk_reserve[k] = NewChunk(m_chunk_reserve[k].id)
        /\ m_chunk = NoChunk => AtStep("acquire")
        /\ (ppc = <<>> \/ AtStep("flush")) => m_chunk # NoChunk)
  /\ [][(AtStep("acquire") /\ ppc' # ppc) =>
          /\ m_chunk' # NoChunk
          /\ m_chunk' = Installed(m_chunk'.id, Head(ppc).cmd)]_vars

\* C28 witness: the first chunk was drained, returned to the reserve and is
\* the current chunk again, empty, while another chunk lies in the reserve.
C28_Witness ==
  /\ m_chunk = NewChunk(1)
  /\ drained # <<>>
  /\ allocated >= 2
  /\ m_chunk_reserve # <<>>

\* C29: in every chunk, wherever it is and whatever Record calls (stored or
\* refused) and ExecuteAll it has seen, command_offset is 0 exactly when
\* first and last are null, and exactly when the chunk holds no closure: the
\* Empty() of the code, which tests the offset, agrees with the test of first.
C29_EmptyAgrees ==
  \A chunk \in AllChunks :
    /\ ChunkEmpty(chunk) <=> (chunk.first = Null /\ chunk.last = Null)
    /\ (chunk.first = Null) <=> (chunk.last = Null)
    /\ ChunkEmpty(chunk) <=> (chunk.nodes = <<>>)

\* C29 witness: a chunk was flushed by a Record it refused, which moved its
\* cursor past the end of its last closure, and a chunk that ExecuteAll has
\* reset lies in the reserve.
C29_Witness ==
  /\ m_chunk_reserve # <<>>
  /\ \E chunk \in LiveChunks :
       /\ chunk.nodes # <<>>
       /\ chunk.command_offset >
            chunk.nodes[Len(chunk.nodes)].offset + chunk.nodes[Len(chunk.nodes)].cmd.size

\* C23: while Flush has pushed the chunk and has yet to install the new
\* current chunk, the chunk it pushed is still on the work queue: the worker
\* has not dequeued it (nor replayed it, nor returned it to the reserve).
C23_FlushAtomic == m_chunk = NoChunk => m_work_queue # <<>>

\* The step pushes a chunk onto the work queue.
Pushes == Len(m_work_queue') = Len(m_work_queue) + 1

\* C23, as the code has it: the push of the current chunk, the clearing of
\* the idle flag and the Wakeup are one step, which leaves the producer
\* without a chunk; the next step of the producer is AcquireNewChunk, and
\* until then it holds no chunk and begins nothing else.
C23_FlushTwoSteps ==
  /\ [](m_chunk = NoChunk <=> AtStep("acquire"))
  /\ [][Pushes =>
          /\ m_work_queue'[Len(m_work_queue')].id = m_chunk.id
          /\ ~m_worker_idle'
          /\ m_submit_loop' = "running"
          /\ m_chunk' = NoChunk]_vars
  /\ [][(AtStep("acquire") /\ ppc' # ppc) =>
          /\ ppc' = Tail(ppc)
          /\ m_chunk' # NoChunk
          /\ UNCHANGED <<m_work_queue, m_worker_idle, m_submit_loop>>]_vars

\* C23 witness: before the producer has acquired its new chunk, the worker
\* has dequeued and replayed the chunk Flush pushed and returned it to the
\* reserve, the only chunk there is.
C23_Witness ==
  /\ AtStep("acquire")
  /\ allocated = 1
  /\ m_chunk_reserve # <<>>
  /\ m_worker_idle

\* Scheduler::Record is in progress: its first CommandChunk::Record was
\* refused, it has flushed and has yet to acquire a chunk and store the
\* closure.
InRecord == ppc # <<>> /\ Head(ppc).cmd.kind # "none"

\* C21: Record returns after at most two steps of the producer, the second of
\* which (AcquireNewChunk and the second CommandChunk::Record) can always be
\* taken, whatever the worker does, and is taken even if the worker never
\* takes a step again: Record waits neither for the idle flag nor for room in
\* the work queue.
C21_RecordNeverBlocks ==
  /\ [](InRecord => ENABLED ProducerAcquire)
  /\ [][(InRecord /\ ppc' # ppc) => ppc' = <<>>]_vars
  /\ InRecord ~> (ppc = <<>>)

\* C21 witness: seven Records have returned, of which some flushed, and the
\* worker has not taken a single chunk: three chunks wait on the queue.
C21_Witness ==
  /\ ppc = <<>>
  /\ Len(recorded) = MaxArenaRecords
  /\ Len(m_work_queue) >= 3
  /\ work = NoChunk
  /\ executed = <<>>

\* The worker has replayed every chunk that was pushed: the queue is empty,
\* the worker holds no chunk, and the closures recorded and not executed are
\* those of the current chunk.
Replayed ==
  /\ m_work_queue = <<>>
  /\ work = NoChunk
  /\ Len(executed) + Len(m_chunk.nodes) = Len(recorded)

\* C27: whenever chunks are on the work queue, the worker eventually has
\* replayed every one of them, and a SyncWorker that was called eventually
\* returns with everything executed, when the worker and the producer's call
\* in progress are scheduled fairly: also when the push and the Wakeup come
\* after the worker has found the queue empty and allowed its loop to sleep,
\* before the loop sleeps.
C27_NoLostWakeup ==
  /\ (m_work_queue # <<>>) ~> Replayed
  /\ (phase = "synced") ~> (ppc = <<>> /\ AllExecuted)

\* C27 witness: a Flush came between AllowSleep and the sleep of the loop;
\* everything recorded has been executed and the loop sleeps.
C27_Witness ==
  /\ phase = "raced"
  /\ Len(recorded) >= 2
  /\ AllExecuted
  /\ m_submit_loop = "sleeping"

\* SubmitCommandBuffer without wait_for_completion was called for a
\* generation and has returned.
ReturnedNoWait(g) ==
  /\ ppc = <<>>
  /\ \E i \in SubmitIndexes : recorded[i].cmd.gen = g /\ ~recorded[i].cmd.wait

\* C22: when no call is in progress the current chunk holds no submit
\* closure: SubmitCommandBuffer has flushed it.  Once SubmitCommandBuffer
\* without wait_for_completion has returned, completed reaches its generation
\* with fair workers and GPU alone, whatever the producer does or fails to do
\* afterwards.  SubmitCommandBuffer with wait_for_completion returns with
\* completed at or above its generation.
C22_SubmitNotStarved ==
  /\ [](ppc = <<>> =>
          \A n \in DOMAIN m_chunk.nodes : m_chunk.nodes[n].cmd.kind # "submit")
  /\ \A g \in SubmitGenerations :
       ReturnedNoWait(g) ~> (m_completed_fence_counter >= g)
  /\ [](AtRet("SubmitCommandBuffer") => m_completed_fence_counter >= Head(ppc).n)

\* C22 witness: the last call was a SubmitCommandBuffer without
\* wait_for_completion, behind a closure recorded before it; it has returned
\* and completed has reached its generation.
C22_Witness ==
  /\ ppc = <<>>
  /\ Len(recorded) >= 2
  /\ recorded[Len(recorded)].cmd.kind = "submit"
  /\ ~recorded[Len(recorded)].cmd.wait
  /\ recorded[Len(recorded) - 1].cmd.kind = "draw"
  /\ m_completed_fence_counter >= recorded[Len(recorded)].cmd.gen

\* The submit closure is running on the producer, inside Record.
InlineRunning ==
  /\ ppc # <<>>
  /\ Head(ppc).op \in {"inline_wait_idle", "inline_begin"}

\* C30: with VULKAN_DISABLE_THREADING every closure has run when Record
\* returns, so the closures executed are at all times the closures recorded,
\* in the order of the calls (the last one still running, inside
\* SubmitCommandBuffer); the current chunk stays the empty first chunk, the
\* work queue and the reserve stay empty and the worker never holds a chunk.
\* In both builds the closures executed when SyncWorker returns are the
\* closures recorded, in the order of the calls: the same sequence for the
\* same calls.
C30_InlineEquivalent ==
  /\ AtRet("SyncWorker") => executed = RecordedIds
  /\ phase = "inline" =>
       /\ m_chunk = NewChunk(1)
       /\ m_work_queue = <<>>
       /\ work = NoChunk
       /\ m_chunk_reserve = <<>>
       /\ executed \o (IF InlineRunning THEN <<Head(ppc).n>> ELSE <<>>) = RecordedIds

\* C30 witness: in the inline build SyncWorker returns after two closures
\* and two submits, all executed.
C30_Witness ==
  /\ phase = "inline"
  /\ AtRet("SyncWorker")
  /\ Len(recorded) = 4
  /\ Cardinality(SubmitIndexes) = 2
  /\ recorded[4].cmd.kind = "draw"
  /\ AllExecuted

\* What a call of WaitForFenceCounter(counter) that finds the completed
\* counter at counter or beyond does: the producer is left with `rest`, and
\* the current chunk, the work queue, the idle flag, the worker's loop and
\* both fence counters are as they were.
ReturnsAtOnce(counter, rest) ==
  m_completed_fence_counter >= counter =>
    /\ ppc' = rest
    /\ UNCHANGED <<m_chunk, m_work_queue, m_worker_idle, m_submit_loop,
                   m_current_fence_counter, m_completed_fence_counter>>

\* C31: WaitForFenceCounter(counter) called when the completed counter is at
\* least counter returns at once, whether called by itself or by
\* SubmitCommandBuffer: no Flush, no wait for the worker and no wait for the
\* fence are left to do, and the current chunk (empty or not), the work queue,
\* the idle flag and both fence counters are unchanged.
C31_EarlyReturn ==
  [][/\ CallWaitForFenceCounter =>
          ReturnsAtOnce(ppc'[Len(ppc')].n,
                        Ret("WaitForFenceCounter", ppc'[Len(ppc')].n))
     /\ ProducerWaitForFence => ReturnsAtOnce(Head(ppc).n, Tail(ppc))]_vars

\* C31 witness: WaitForFenceCounter returns for the generation of a submit
\* that has completed while the current chunk holds a closure: a call that
\* had synced the worker would have flushed that chunk.
C31_Witness ==
  /\ AtRet("WaitForFenceCounter")
  /\ Len(ppc) = 1
  /\ Head(ppc).n = INITIAL_FENCE_COUNTER + 1
  /\ m_completed_fence_counter >= Head(ppc).n
  /\ ~ChunkEmpty(m_chunk)

====
